---------------------------- MODULE Spec2Model ----------------------------
(***************************************************************************)
(* Model of the X8H7 SPI frame multiplexer (src/x8h7_drv.c, src/x8h7.h).   *)
(*                                                                         *)
(* State: the transmit and receive buffers of struct spidev_data, the      *)
(* recorded transmit length, the mutex, the hook registry, the diagnostic  *)
(* tap, and the position of every thread (two producers and the threaded   *)
(* interrupt handler) inside the exported entry points.                    *)
(* Buffers are byte arrays indexed from 0, multi-byte fields are little    *)
(* endian as laid out by the packed structs x8h7_pkthdr_t / x8h7_subpkt_t. *)
(***************************************************************************)
EXTENDS Integers, Sequences, FiniteSets, TLC

(***************************************************************************)
(* Program constants.                                                      *)
(***************************************************************************)
X8H7_BUF_SIZE == 256

X8H7_PKT_SIZE == X8H7_BUF_SIZE - 8

X8H7_PERIPH_NUM == 16

\* sizeof(x8h7_pkthdr_t): uint16 size, uint16 checksum
HdrLen == 4

\* sizeof(x8h7_subpkt_t): uint8 peripheral, uint8 opcode, uint16 size
SubLen == 4

\* 0x5555, the constant the header checksum is XORed with
XorKey == 21845

ENOMEM == 12

\* errno of a failed spi_sync
EIO == 5

NULL == "NULL"

(***************************************************************************)
(* Bounds of the model.                                                    *)
(***************************************************************************)
\* sub-packets that may be pending in the transmit buffer between exchanges
MaxPend == 2

(***************************************************************************)
(* Integer helpers: uint16 arithmetic and little-endian fields.            *)
(***************************************************************************)
U16 == 65536

RECURSIVE Xor(_, _)
Xor(a, b) ==
  IF a = 0 THEN b
  ELSE IF b = 0 THEN a
  ELSE (((a % 2) + (b % 2)) % 2) + 2 * Xor(a \div 2, b \div 2)

Lo(v) == v % 256

Hi(v) == (v \div 256) % 256

\* a uint16 field read through a struct pointer at byte offset off
Rd16(buf, off) == buf[off] + 256 * buf[off + 1]

(***************************************************************************)
(* Memory.  Both buffers are allocations of X8H7_BUF_SIZE bytes, indexed   *)
(* from 0.  A store through a pointer that has left the transmit buffer    *)
(* does not reach the buffer: it lands in whatever follows the allocation. *)
(* The model keeps no image of that memory; it records how far the stores  *)
(* of x8h7_pkt_enq reached (field hi of its result).                       *)
(***************************************************************************)
ZeroBuf == [i \in 0..(X8H7_BUF_SIZE - 1) |-> 0]

\* the caller's data pointer: null, or a buffer holding d, d + 0x11, d + 0x22, ...
NullData == [null |-> TRUE, base |-> 0, bytes |-> << >>]

Buf(d) == [null |-> FALSE, base |-> d, bytes |-> << >>]

\* the caller's data pointer: a buffer holding the bytes of seq
Bytes(seq) == [null |-> FALSE, base |-> 0, bytes |-> seq]

\* byte i of the buffer data points to
DataByte(data, i) ==
  IF data.bytes # << >>
  THEN IF i < Len(data.bytes) THEN data.bytes[i + 1] ELSE 0
  ELSE (data.base + (17 * i)) % 256

\* the payload a caller passing (size, data) means to send: the bytes of its
\* buffer, or n zero bytes when it passes a null pointer

DataSeq(data, n) == [i \in 1..n |-> IF data.null THEN 0 ELSE DataByte(data, i - 1)]

(***************************************************************************)
(* x8h7_pkt_enq                                                            *)
(***************************************************************************)
\* a faulty capacity test: one byte too generous
EnqFitsLe(hsize, size) == hsize + SubLen + size <= X8H7_BUF_SIZE

\* the capacity test of x8h7_pkt_enq
EnqFits(hsize, size) == hsize + SubLen + size < X8H7_BUF_SIZE

\* a faulty payload store: the test of the data pointer is inverted
EnqByteInverted(data, i) == IF data.null THEN DataByte(data, i) ELSE 0

\* payload byte i as x8h7_pkt_enq stores it: memset(ptr, 0, size) for a null
\* pointer, memcpy(ptr, data, size) otherwise
EnqByte(data, i) == IF data.null THEN 0 ELSE DataByte(data, i)

\* a faulty header update: the checksum is not refreshed
EnqHeaderStale(txb, nsize) ==
  [i \in {0, 1, 2, 3} |-> IF i = 0 THEN Lo(nsize)
                          ELSE IF i = 1 THEN Hi(nsize)
                          ELSE txb[i]]

\* hdr->size += ...; hdr->checksum = hdr->size ^ 0x5555
EnqHeader(txb, nsize) ==
  [i \in {0, 1, 2, 3} |-> IF i = 0 THEN Lo(nsize)
                          ELSE IF i = 1 THEN Hi(nsize)
                          ELSE IF i = 2 THEN Lo(Xor(nsize, XorKey))
                          ELSE Hi(Xor(nsize, XorKey))]

\* a faulty append: the sub-packets already queued are not skipped
EnqOffsetStart(hsize) == HdrLen

\* ptr += sizeof(x8h7_pkthdr_t) + hdr->size: where the new sub-packet goes
EnqOffset(hsize) == HdrLen + hsize

\* result of x8h7_pkt_enq on transmit memory txb with recorded length txl:
\* the return value, the memory and length afterwards, and hi, one past the
\* highest offset written through ptr (0 when nothing was written)
x8h7_pkt_enq(txb, txl, peripheral, opcode, size, data) ==
  LET hsize == Rd16(txb, 0)
      off   == EnqOffset(hsize)
      nsize == (hsize + SubLen + size) % U16
      hdr   == EnqHeader(txb, nsize)
  IN  IF EnqFits(hsize, size)
      THEN [ret |-> 0,
            txb |-> [i \in DOMAIN txb |->
                       IF i < HdrLen THEN hdr[i]
                       ELSE IF i = off THEN peripheral
                       ELSE IF i = off + 1 THEN opcode
                       ELSE IF i = off + 2 THEN Lo(size)
                       ELSE IF i = off + 3 THEN Hi(size)
                       ELSE IF i >= off + SubLen /\ i < off + SubLen + size
                            THEN EnqByte(data, i - off - SubLen)
                       ELSE txb[i]],
            txl |-> nsize,
            hi  |-> off + SubLen + size]
      ELSE [ret |-> -ENOMEM, txb |-> txb, txl |-> txl, hi |-> 0]

(***************************************************************************)
(* pkt_parse: the walk over the sub-packets of a received frame.           *)
(***************************************************************************)
\* a byte read through ptr: inside the receive buffer its content, outside
\* it whatever the memory behind the buffer holds (oobv)
RxAt(rxb, off, oobv) == IF off < X8H7_BUF_SIZE THEN rxb[off] ELSE oobv

\* if (p.size > X8H7_PKT_SIZE) p.size = X8H7_PKT_SIZE
Clamp(psz) == IF psz > X8H7_PKT_SIZE THEN X8H7_PKT_SIZE ELSE psz

\* if (i < X8H7_PERIPH_NUM) { if (pkt->peripheral == 0 || pkt->size == 0) return 0;
IsTerminator(per, psz) == per < X8H7_PERIPH_NUM /\ (per = 0 \/ psz = 0)

\* a faulty test of the registry: every id in range counts as registered
RegisteredAny(hook, per) == per < X8H7_PERIPH_NUM

\* if (i < X8H7_PERIPH_NUM) { ... if (x8h7_hook[i])
Registered(hook, per) == per < X8H7_PERIPH_NUM /\ hook[per] # NULL

\* a faulty dispatch: the newest invocation is put before the earlier ones
DeliverFirst(calls, call) == << call >> \o calls

\* x8h7_hook[i](x8h7_hook_priv[i], &p): one more handler invocation
Deliver(calls, call) == Append(calls, call)

\* size -= (sizeof(x8h7_subpkt_t) + pkt->size), in uint16_t
Remaining(size, psz) == (size + 2 * U16 - (SubLen + psz)) % U16

\* what the walk has done so far: the handler invocations, whether a read
\* left the receive buffer (ub), whether the remaining size wrapped around
\* (wrap), and the number of iterations of the loop (iters)
NoWalk == [calls |-> << >>, ub |-> FALSE, wrap |-> FALSE, iters |-> 0]

\* One iteration of the do-while loop and, recursively, the ones after it.
\* ptr is the offset of the sub-packet header, size the uint16 remaining
\* size, acc what the iterations before it did.  A read outside the receive
\* buffer has no defined result: the walk of the model ends, with ub set,
\* when a sub-packet header itself lies outside the buffer.
RECURSIVE ParseLoop(_, _, _, _, _, _, _)
ParseLoop(rxb, hook, priv, oobv, ptr, size, acc) ==
  IF ptr + SubLen > X8H7_BUF_SIZE
  THEN [acc EXCEPT !.ub = TRUE]
  ELSE
    LET per   == rxb[ptr]
        opc   == rxb[ptr + 1]
        psz   == Rd16(rxb, ptr + 2)
        dptr  == ptr + SubLen
        n     == Clamp(psz)
        call  == [fn |-> hook[per], priv |-> priv[per],
                  peripheral |-> per, opcode |-> opc, size |-> n,
                  data |-> [k \in 1..n |-> RxAt(rxb, dptr + k - 1, oobv)],
                  off |-> ptr, psz |-> psz]
        isreg == Registered(hook, per)
        nsize == Remaining(size, psz)
        acc2  == [calls |-> IF isreg THEN Deliver(acc.calls, call) ELSE acc.calls,
                  ub    |-> acc.ub \/ (isreg /\ dptr + n > X8H7_BUF_SIZE),
                  wrap  |-> acc.wrap \/ SubLen + psz > size,
                  iters |-> acc.iters + 1]
    IN  IF IsTerminator(per, psz)
        THEN [acc EXCEPT !.iters = acc.iters + 1]
        ELSE IF nsize > 0
             THEN ParseLoop(rxb, hook, priv, oobv, dptr + psz, nsize, acc2)
             ELSE acc2

pkt_parse(rxb, hook, priv, oobv) ==
  ParseLoop(rxb, hook, priv, oobv, HdrLen, Rd16(rxb, 0), NoWalk)

(***************************************************************************)
(* x8h7_pkt_send: the pieces of the exchange.                              *)
(***************************************************************************)
\* a faulty test of the received size: every frame counts as non-empty
HasPayloadAlways(rxb) == TRUE

\* if (hdr->size)
HasPayload(rxb) == Rd16(rxb, 0) # 0

\* what the dispatch of one exchange did: the handler invocations, the tap
\* invocations, and what the walk of pkt_parse recorded
NoDisp == [on |-> FALSE, calls |-> << >>, taps |-> << >>, ub |-> FALSE,
           wrap |-> FALSE, iters |-> 0]

\* The locals of a dispatch taken load by load (ptr and size of pkt_parse,
\* the value the test of the handler saw, the handler and the context loaded
\* for the call), and the second store of an x8h7_hook_set (hs) and of an
\* x8h7_dbg_set (ds) whose first store is done.
NoRace == [ptr |-> 0, size |-> 0, tested |-> NULL,
           fn |-> NULL, fn_ld |-> FALSE, priv |-> NULL, priv_ld |-> FALSE,
           hs |-> [on |-> FALSE, idx |-> 0, hook |-> NULL, priv |-> NULL],
           ds |-> [on |-> FALSE, priv |-> NULL]]

\* the locals of the dispatch cleared, the stores in progress kept
Locals(r) == [NoRace EXCEPT !.hs = r.hs, !.ds = r.ds]

\* the invocation x8h7_hook[i](x8h7_hook_priv[i], &p) for the sub-packet at
\* ptr, made through the handler fn and the context priv the call loaded
CallAt(rxb, ptr, fn, priv) ==
  LET c == ParseLoop(rxb, [i \in 0..(X8H7_PERIPH_NUM - 1) |-> "f"],
                     [i \in 0..(X8H7_PERIPH_NUM - 1) |-> NULL], 0, ptr,
                     SubLen + Rd16(rxb, ptr + 2), NoWalk).calls[1]
  IN  [c EXCEPT !.fn = fn, !.priv = priv]

\* a faulty test of the tap: it is never found installed
TapNever(dbg) == FALSE

\* if (x8h7_dbg)
TapInstalled(dbg) == dbg # NULL

\* if (hdr->size) { if (x8h7_dbg) x8h7_dbg(x8h7_dbg_priv, rxb, hdr->size);
\* else pkt_parse(spidev); }: the invocations the exchange makes
Dispatch(rxb, hook, priv, dbg, dbg_priv, oobv) ==
  IF HasPayload(rxb)
  THEN IF TapInstalled(dbg)
       THEN [NoDisp EXCEPT !.on = TRUE,
                           !.taps = << [fn |-> dbg, priv |-> dbg_priv,
                                        buf |-> rxb, len |-> Rd16(rxb, 0)] >>]
       ELSE LET r == pkt_parse(rxb, hook, priv, oobv)
            IN  [on |-> TRUE, calls |-> r.calls, taps |-> << >>, ub |-> r.ub,
                 wrap |-> r.wrap, iters |-> r.iters]
  ELSE [NoDisp EXCEPT !.on = TRUE]

\* handlers and taps that call x8h7_pkt_send_now from inside the dispatch
Reentrant == {"reent_hook", "reent_dbg"}

\* the invocations of seq up to and including the first one of a handler
\* that does not return
RECURSIVE UpToBlocked(_)
UpToBlocked(seq) ==
  IF seq = << >> THEN << >>
  ELSE IF seq[1].fn \in Reentrant THEN << seq[1] >>
  ELSE << seq[1] >> \o UpToBlocked(Tail(seq))

\* the dispatch d invokes a handler or a tap that calls a send entry point
Blocks(d) ==
  \/ \E k \in 1..Len(d.calls) : d.calls[k].fn \in Reentrant
  \/ \E k \in 1..Len(d.taps) : d.taps[k].fn \in Reentrant

\* a faulty reset: only the frame header is cleared
MemsetHeader(buf) == [i \in DOMAIN buf |-> IF i < HdrLen THEN 0 ELSE buf[i]]

\* memset(buf, 0, X8H7_BUF_SIZE)
Memset(buf) == [i \in DOMAIN buf |-> IF i < X8H7_BUF_SIZE THEN 0 ELSE buf[i]]

\* the value x8h7_pkt_send returns after a transfer that returned spi_ret
PktSendRet(spi_ret) == 0

(***************************************************************************)
(* x8h7_hook_set                                                           *)
(***************************************************************************)
\* result of x8h7_hook_set(idx, h, p) on the tables hook and priv: the
\* return value and the tables afterwards
x8h7_hook_set(hook, priv, idx, h, p) ==
  IF idx >= X8H7_PERIPH_NUM
  THEN [ret |-> -1, hook |-> hook, priv |-> priv]
  ELSE [ret |-> 0,
        hook |-> [hook EXCEPT ![idx] = h],
        priv |-> [priv EXCEPT ![idx] = p]]

(***************************************************************************)
(* mutex                                                                   *)
(***************************************************************************)
\* a faulty gate: the lock is handed out even when it is held
MutexFreeAlways(l) == TRUE

\* mutex_lock returns when the mutex is free
MutexFree(l) == l = NULL

(***************************************************************************)
(* Inputs.                                                                 *)
(***************************************************************************)
Producers == {"p1", "p2"}

Isr == "irq"

Threads == Producers \cup {Isr}

\* the worker of the CAN driver's workqueue, and the thread in which the
\* network stack opens and stops the CAN interface
CanWq == "wq"

CanNdo == "ndo"

AllThreads == Threads \cup {CanWq, CanNdo}

Arg(p, o, n, d) == [peripheral |-> p, opcode |-> o, size |-> n, data |-> d]

\* the arguments the producers pass to x8h7_pkt_send_sync and
\* x8h7_pkt_send_defer, each producer being the driver of its own peripherals:
\* small, empty, zero-filled, the largest payload that fits the frame, one
\* the capacity test admits although it ends past the buffer, and ones it
\* rejects
TxArgs(t) ==
  IF t = "p1"
  THEN { Arg(1, 16, 2, Buf(170)),
         Arg(3, 32, 120, NullData),
         Arg(6, 6, 251, Buf(9)),
         Arg(8, 8, 65535, NullData) }
  ELSE { Arg(2, 1, 0, Buf(170)),
         Arg(4, 48, 248, Buf(7)),
         Arg(7, 7, 252, Buf(3)) }

NoArg == Arg(0, 0, 0, NullData)

MkFrame(bytes) ==
  [i \in 0..(X8H7_BUF_SIZE - 1) |-> IF i < Len(bytes) THEN bytes[i + 1] ELSE 0]

HdrBytes(size, checksum) == << Lo(size), Hi(size), Lo(checksum), Hi(checksum) >>

SubBytes(p, o, n, d) == << p, o, Lo(n), Hi(n) >> \o DataSeq(d, n)

\* two sub-packets, for peripheral 3 and for peripheral 1
RxTwoSubs == SubBytes(3, 17, 2, Buf(170)) \o SubBytes(1, 18, 1, Buf(204))

\* the frames the peer may return
RxFrames ==
  { ZeroBuf,
    MkFrame(HdrBytes(11, Xor(11, XorKey)) \o RxTwoSubs),
    MkFrame(HdrBytes(11, 0) \o RxTwoSubs),
    MkFrame(HdrBytes(0, 0) \o RxTwoSubs) }

\* A received frame described by what the peer put into it: the size its
\* header declares and the sub-packets that follow the header, back to back.
RxCase(hsize, subs) == [hsize |-> hsize, subs |-> subs]

Sub(p, o, n, d) == [a |-> Arg(p, o, n, d)]

RECURSIVE SubsBytes(_)
SubsBytes(subs) ==
  IF subs = << >> THEN << >>
  ELSE SubBytes(subs[1].a.peripheral, subs[1].a.opcode, subs[1].a.size,
                subs[1].a.data) \o SubsBytes(Tail(subs))

\* the 256 bytes of the frame, with a good checksum; what the sub-packets
\* declare beyond the frame is not on the wire
FrameOf(c) == MkFrame(HdrBytes(c.hsize, Xor(c.hsize, XorKey)) \o SubsBytes(c.subs))

\* frames as the protocol means them: the declared size is the sum over the
\* sub-packets, at most 252
RxWellFormed ==
  { RxCase(11, << Sub(3, 17, 2, Buf(170)), Sub(1, 18, 1, Buf(204)) >>),
    RxCase(18, << Sub(3, 17, 2, Buf(170)), Sub(20, 5, 3, Buf(1)),
                  Sub(3, 19, 1, Buf(9)) >>),
    RxCase(252, << Sub(4, 48, 248, Buf(7)) >>) }

\* frames a faulty or hostile peer may send: a sub-packet of size 0 or id 0
\* in the middle, a declared frame size smaller than the first sub-packet,
\* sub-packets that declare more than the frame holds
RxMalformed ==
  { RxCase(15, << Sub(3, 17, 2, Buf(170)), Sub(16, 9, 0, NullData),
                  Sub(1, 18, 1, Buf(204)) >>),
    RxCase(15, << Sub(3, 17, 2, Buf(170)), Sub(5, 9, 0, NullData),
                  Sub(1, 18, 1, Buf(204)) >>),
    RxCase(16, << Sub(3, 17, 2, Buf(170)), Sub(0, 9, 1, Buf(1)),
                  Sub(1, 18, 1, Buf(204)) >>),
    RxCase(5, << Sub(3, 17, 2, Buf(170)), Sub(1, 18, 1, Buf(204)) >>),
    RxCase(304, << Sub(3, 17, 300, Buf(5)) >>),
    RxCase(400, << Sub(3, 17, 300, Buf(5)) >>),
    RxCase(400, << Sub(3, 17, 2, Buf(170)), Sub(1, 18, 300, Buf(5)) >>) }

RxCases == RxWellFormed \cup RxMalformed

\* the frame of each case
RxCaseFrames == [c \in RxCases |-> FrameOf(c)]

\* the frames the peer may return in the receive scenario
RxFramesWide == { RxCaseFrames[c] : c \in RxCases } \cup RxFrames

\* what a read behind the receive buffer may return
OobBytes == {0, 255}

\* results of spi_sync
SpiResults == {0, -EIO}

HookIdx == {3, X8H7_PERIPH_NUM}

\* (hook, priv) pairs drivers register
HookPairs == { << NULL, NULL >>, << "x8h7_can_hook", "can_priv" >> }

\* the ids drivers pass to x8h7_hook_set in the receive scenario
HookIdxWide == {0, 1, 3, X8H7_PERIPH_NUM, 255}

HookPairsWide == HookPairs \cup { << "x8h7_adc_hook", "adc_priv" >> }

DbgPairs == { << NULL, NULL >>, << "dbg_hook", "dbg_priv" >> }

NoHooks == [i \in 0..(X8H7_PERIPH_NUM - 1) |-> NULL]

(***************************************************************************)
(* x8h7_can: the CAN driver, a consumer of the transport.  Its header      *)
(* x8h7_can.h (opcodes, status bits, sizes, the layout of the messages) is *)
(* not among the sources; the values below are the ones the driver's code  *)
(* and comments imply, or fixed by the model where only their being        *)
(* different matters.                                                      *)
(***************************************************************************)
X8H7_CAN1_PERIPH == 3

\* 4-byte id and 1-byte length
X8H7_CAN_HEADER_SIZE == 5

X8H7_CAN_FRAME_MAX_DATA_LEN == 8

X8H7_CAN_OC_INIT == 16

X8H7_CAN_OC_DEINIT == 17

X8H7_CAN_OC_SEND == 1

X8H7_CAN_OC_RECV == 1

X8H7_CAN_OC_STS == 64

X8H7_CAN_STS_INT_TX_COMPLETE == 1

\* sizeof(x8h7_msg.buf) of union x8h7_can_init_message: four 32-bit fields
X8H7_CAN_INIT_SIZE == 16

\* intf & bit, for a bit that is a power of two
BitSet(v, bit) == (v \div bit) % 2 = 1

\* a CAN frame of the network stack: can_id as its EFF flag and its
\* identifier bits, can_dlc, and the 8 bytes of data
CanFrame(eff, id, dlc, data) == [eff |-> eff, id |-> id, can_dlc |-> dlc, data |-> data]

NoTxFrame == [eff |-> FALSE, id |-> 0, len |-> 0, data |-> [i \in 1..8 |-> 0]]

\* x8h7_can_frame_to_tx_obj(frame, &priv->tx_frame): the identifier masked
\* by CAN_EFF_MASK or CAN_SFF_MASK, the length clamped, and len bytes of data
\* copied over what the message held
x8h7_can_frame_to_tx_obj(frame, msg) ==
  LET len == IF frame.can_dlc <= X8H7_CAN_FRAME_MAX_DATA_LEN
             THEN frame.can_dlc ELSE X8H7_CAN_FRAME_MAX_DATA_LEN
  IN  [eff  |-> frame.eff,
       id   |-> IF frame.eff THEN frame.id % 536870912 ELSE frame.id % 2048,
       len  |-> len,
       data |-> [i \in 1..8 |-> IF i <= len THEN frame.data[i] ELSE msg.data[i]]]

\* priv->tx_frame.buf: the bytes of the message, the id little-endian with
\* CAN_EFF_FLAG in its top bit
TxBuf(msg) ==
  << msg.id % 256, (msg.id \div 256) % 256, (msg.id \div 65536) % 256,
     ((msg.id \div 16777216) % 256) + (IF msg.eff THEN 128 ELSE 0), msg.len >>
  \o [i \in 1..8 |-> msg.data[i]]

\* The CAN driver: the state of the net queue, priv->tx_frame, priv->tx_len,
\* net->stats.tx_bytes and tx_packets, whether the work is pending, the size
\* the running work handler passed to x8h7_pkt_send_sync (wsize), the last
\* frame x8h7_can_hook took from a RECV sub-packet (rx: the sub-packet's
\* size and the number of bytes copied), and where open and stop are
\* (phase).  What the peer holds: the number of SEND sub-packets it got and
\* has not reported complete (h7).  Bookkeeping of the properties: the
\* accepted frames no TX_COMPLETE was dispatched for (acc), the lengths of
\* the ones it was dispatched for summed up (due), the number of frames
\* accepted (n), whether an exchange carried the current frame (handed),
\* and whether an exchange carried DEINIT and INIT since open or stop began.
NoCan == [queue |-> "stopped", tx_frame |-> NoTxFrame, tx_len |-> 0,
          tx_bytes |-> 0, tx_packets |-> 0, work |-> FALSE, wsize |-> 0,
          rx |-> [on |-> FALSE, size |-> 0, dlc |-> 0],
          phase |-> "down", h7 |-> 0, acc |-> << >>, due |-> 0, n |-> 0,
          handed |-> FALSE, deinit |-> FALSE, init |-> FALSE]

\* x8h7_can_status(priv, intf, eflag): the TX_COMPLETE part; the other parts
\* count errors
x8h7_can_status(c, intf, eflag) ==
  IF BitSet(intf, X8H7_CAN_STS_INT_TX_COMPLETE)
  THEN [c EXCEPT !.tx_packets = c.tx_packets + 1,
                 !.tx_bytes = c.tx_bytes + c.tx_len,
                 !.tx_len = 0,
                 !.queue = "running",
                 !.acc = IF c.acc = << >> THEN << >> ELSE Tail(c.acc),
                 !.due = IF c.acc = << >> THEN c.due ELSE c.due + c.acc[1].len]
  ELSE c

\* x8h7_can_hook(priv, pkt) for a RECV sub-packet: too short, it is dropped;
\* otherwise can_dlc is the length byte of the message and can_dlc bytes are
\* copied from pkt->data + X8H7_CAN_HEADER_SIZE to frame->data.  alloc_can_skb
\* succeeds, and the receive counters of net->stats are not kept.
CanRecv(c, pkt) ==
  IF pkt.size < X8H7_CAN_HEADER_SIZE
  THEN c
  ELSE [c EXCEPT !.rx = [on |-> TRUE, size |-> pkt.size,
                         dlc |-> pkt.data[X8H7_CAN_HEADER_SIZE]]]

\* x8h7_can_hook(priv, pkt): switch (pkt->opcode)
x8h7_can_hook(c, pkt) ==
  IF pkt.opcode = X8H7_CAN_OC_RECV THEN CanRecv(c, pkt)
  ELSE IF pkt.opcode = X8H7_CAN_OC_STS /\ pkt.size >= 2
  THEN x8h7_can_status(c, pkt.data[1], pkt.data[2])
  ELSE c

\* the handlers of the invocations calls run one after the other
RECURSIVE RunHooks(_, _)
RunHooks(c, calls) ==
  IF calls = << >> THEN c
  ELSE RunHooks(IF calls[1].fn = "x8h7_can_hook" THEN x8h7_can_hook(c, calls[1]) ELSE c,
                Tail(calls))

\* the sub-packets of the CAN driver with opcode opc among the pending ones
CanPending(pend, opc) ==
  { k \in 1..Len(pend) : /\ pend[k].a.peripheral = X8H7_CAN1_PERIPH
                         /\ pend[k].a.opcode = opc
                         /\ pend[k].by \in {CanWq, CanNdo} }

\* the frame by which the peer reports a transmission complete
TxCompleteFrame ==
  FrameOf(RxCase(6, << Sub(X8H7_CAN1_PERIPH, X8H7_CAN_OC_STS, 2,
                           Bytes(<< X8H7_CAN_STS_INT_TX_COMPLETE, 0 >>)) >>))

\* An exchange, seen from the peer: it gets the pending sub-packets when
\* spi_sync succeeds, and the frame rx it returns may report one
\* transmission complete.
OnWire(c, pend, rx, s) ==
  LET sends == Cardinality(CanPending(pend, X8H7_CAN_OC_SEND))
      got   == IF s = 0 THEN sends ELSE 0
      compl == IF rx = TxCompleteFrame /\ c.h7 > 0 THEN 1 ELSE 0
  IN  [c EXCEPT !.h7 = c.h7 + got - compl,
                !.handed = c.handed \/ sends > 0,
                !.deinit = c.deinit \/ CanPending(pend, X8H7_CAN_OC_DEINIT) # {},
                !.init = c.init \/ CanPending(pend, X8H7_CAN_OC_INIT) # {}]

(***************************************************************************)
(* State.                                                                  *)
(***************************************************************************)
VARIABLES
  x8h7_txb,        \* spidev->x8h7_txb
  x8h7_txl,        \* spidev->x8h7_txl
  x8h7_rxb,        \* spidev->x8h7_rxb
  lock,            \* spidev->lock: NULL or the thread holding it
  x8h7_hook,       \* x8h7_hook[]
  x8h7_hook_priv,  \* x8h7_hook_priv[]
  x8h7_dbg,        \* x8h7_dbg
  x8h7_dbg_priv,   \* x8h7_dbg_priv
  pc,              \* position of each thread
  op,              \* entry point each thread is in
  ret,             \* local variable ret of the entry point
  pend,            \* history: sub-packets enqueued since the last reset
  last_enq,        \* history: the call of x8h7_pkt_enq just made
  wire,            \* history: the transfer of the exchange in progress
  disp,            \* history: the invocations made by the dispatch
  hist,            \* history: log of transfers and rejected enqueues
  tracing,         \* whether hist is kept
  race,            \* the dispatch and the registration in progress, where
                   \* the scenario takes them load by load and store by store
  can              \* the CAN driver of peripheral X8H7_CAN1_PERIPH, and what
                   \* the peer holds of its traffic

vars == << x8h7_txb, x8h7_txl, x8h7_rxb, lock, x8h7_hook, x8h7_hook_priv,
           x8h7_dbg, x8h7_dbg_priv, pc, op, ret, pend, last_enq, wire, disp,
           hist, tracing, race, can >>

bufs == << x8h7_txb, x8h7_txl, x8h7_rxb >>

registry == << x8h7_hook, x8h7_hook_priv, x8h7_dbg, x8h7_dbg_priv >>

NoEnq == [on |-> FALSE, by |-> NULL, a |-> NoArg, hsize |-> 0, ret |-> 0, hi |-> 0]

NoWire == [on |-> FALSE, by |-> NULL, frame |-> ZeroBuf, rx |-> ZeroBuf,
           pend |-> << >>, spi |-> 0, done |-> FALSE]

\* x8h7_probe: both buffers zeroed, the length 0, the mutex initialised;
\* the hook table and the tap are zero-initialised globals
InitCommon ==
  /\ x8h7_txb = ZeroBuf
  /\ x8h7_txl = 0
  /\ x8h7_rxb = ZeroBuf
  /\ lock = NULL
  /\ ret = [t \in AllThreads |-> 0]
  /\ pend = << >>
  /\ last_enq = NoEnq
  /\ wire = NoWire
  /\ disp = NoDisp
  /\ hist = << >>
  /\ race = NoRace

Init ==
  /\ InitCommon
  /\ x8h7_hook = NoHooks
  /\ x8h7_hook_priv = NoHooks
  /\ x8h7_dbg = NULL
  /\ x8h7_dbg_priv = NULL
  /\ pc = [t \in AllThreads |-> "idle"]
  /\ op = [t \in AllThreads |-> NULL]
  /\ tracing = FALSE
  /\ can = NoCan

(***************************************************************************)
(* Threads.  A producer calls x8h7_pkt_send_sync, x8h7_pkt_send_defer or   *)
(* x8h7_pkt_send_now; the interrupt thread runs x8h7_threaded_isr.  Every  *)
(* entry point starts with mutex_lock, and nothing of the call is visible  *)
(* to the other threads before the mutex is taken: which entry point a     *)
(* blocked thread is in is drawn when mutex_lock returns, the arguments    *)
(* where x8h7_pkt_enq reads them.                                          *)
(***************************************************************************)
\* the entry points thread t may be in; one that enqueues only while the
\* model's bound on pending sub-packets leaves room
EntryPoints(t) ==
  IF t = Isr THEN {"isr"}
  ELSE IF Len(pend) < MaxPend THEN {"sync", "defer", "now"}
  ELSE {"now"}

\* a thread enters an entry point and reaches mutex_lock
Call(t) ==
  /\ pc[t] = "idle"
  /\ pc' = [pc EXCEPT ![t] = "lock"]
  /\ UNCHANGED << bufs, lock, registry, op, ret, pend, last_enq, wire, disp, hist, tracing, race, can >>

\* mutex_lock(&spidev->lock) returns in entry point o; the thread called the
\* entry point itself, or a handler it invoked in its dispatch did
MutexLock(t, o) ==
  /\ pc[t] \in {"lock", "hlock"}
  /\ MutexFree(lock)
  /\ lock' = t
  /\ op' = [op EXCEPT ![t] = o]
  /\ pc' = [pc EXCEPT ![t] = IF o \in {"sync", "defer"} THEN "enq" ELSE "send"]
  /\ UNCHANGED << bufs, registry, ret, pend, last_enq, wire, disp, hist, tracing, race, can >>

\* a faulty error path: x8h7_pkt_send_sync returns ret without mutex_unlock
AfterEnqLeak(o, r) ==
  IF o = "sync" /\ r >= 0 THEN "send" ELSE IF r < 0 THEN "idle" ELSE "unlock"

\* where a thread in entry point o goes after x8h7_pkt_enq returned r: on to
\* x8h7_pkt_send in x8h7_pkt_send_sync if r >= 0, to mutex_unlock otherwise
AfterEnq(o, r) == IF o = "sync" /\ r >= 0 THEN "send" ELSE "unlock"

\* ret = x8h7_pkt_enq(peripheral, opcode, size, data), and the test of ret
\* that follows it in x8h7_pkt_send_sync
Enqueue(t, a) ==
  /\ pc[t] = "enq"
  /\ LET r == x8h7_pkt_enq(x8h7_txb, x8h7_txl, a.peripheral, a.opcode, a.size, a.data)
     IN  /\ x8h7_txb' = r.txb
         /\ x8h7_txl' = r.txl
         /\ ret' = [ret EXCEPT ![t] = r.ret]
         /\ pc' = [pc EXCEPT ![t] = AfterEnq(op[t], r.ret)]
         /\ pend' = IF r.ret = 0 THEN Append(pend, [by |-> t, a |-> a]) ELSE pend
         /\ last_enq' = [on |-> TRUE, by |-> t, a |-> a,
                         hsize |-> Rd16(x8h7_txb, 0), ret |-> r.ret, hi |-> r.hi]
         /\ hist' = IF tracing /\ r.ret < 0
                    THEN Append(hist, [kind |-> "enqfail", by |-> t,
                                       frame |-> ZeroBuf, pend |-> << >>])
                    ELSE hist
  /\ UNCHANGED << x8h7_rxb, lock, registry, op, wire, disp, tracing, race, can >>

\* the enqueue of a producer, with arguments of its own
PktEnq(t) == \E a \in TxArgs(t) : Enqueue(t, a)

\* x8h7_pkt_send, first part: x8h7_spi_trx(spi, txb, rxb, FIXED_PACKET_LEN).
\* The peer's frame, one of frames, and the result of spi_sync are inputs.
SpiTrx(t, frames) ==
  /\ pc[t] = "send"
  /\ \E rx \in frames, s \in SpiResults :
       /\ x8h7_rxb' = rx
       /\ wire' = [on |-> TRUE, by |-> t, frame |-> x8h7_txb, rx |-> rx,
                   pend |-> pend, spi |-> s, done |-> FALSE]
       /\ hist' = IF tracing
                  THEN Append(hist, [kind |-> "xchg", by |-> t,
                                     frame |-> x8h7_txb, pend |-> pend])
                  ELSE hist
       /\ can' = OnWire(can, pend, rx, s)
  /\ pc' = [pc EXCEPT ![t] = "parse"]
  /\ last_enq' = NoEnq
  /\ UNCHANGED << x8h7_txb, x8h7_txl, lock, registry, op, ret, pend, disp, tracing, race >>

PktSendTrx(t) == SpiTrx(t, RxFrames)

\* x8h7_pkt_send, second part: the tap, or pkt_parse, for a frame with size.
\* The handlers run inside the dispatch: what x8h7_can_hook does to the CAN
\* driver happens here.
\* A handler that calls a send entry point takes the thread to the
\* mutex_lock of that entry point, with the mutex of the exchange held.
PktSendDispatch(t) ==
  /\ pc[t] = "parse"
  /\ \E oobv \in OobBytes :
       LET d == Dispatch(x8h7_rxb, x8h7_hook, x8h7_hook_priv, x8h7_dbg,
                         x8h7_dbg_priv, oobv)
       IN  IF Blocks(d)
           THEN /\ disp' = [d EXCEPT !.calls = UpToBlocked(d.calls)]
                /\ can' = RunHooks(can, UpToBlocked(d.calls))
                /\ pc' = [pc EXCEPT ![t] = "hlock"]
           ELSE /\ disp' = d
                /\ can' = RunHooks(can, d.calls)
                /\ pc' = [pc EXCEPT ![t] = "reset"]
  /\ UNCHANGED << bufs, lock, registry, op, ret, pend, last_enq, wire, hist, tracing, race >>

\* x8h7_pkt_send, last part: both memsets, x8h7_txl = 0, return 0; and the
\* caller's ret = x8h7_pkt_send()
PktSendReset(t) ==
  /\ pc[t] = "reset"
  /\ x8h7_txb' = Memset(x8h7_txb)
  /\ x8h7_rxb' = Memset(x8h7_rxb)
  /\ x8h7_txl' = 0
  /\ ret' = [ret EXCEPT ![t] = IF op[t] = "isr" THEN ret[t] ELSE PktSendRet(wire.spi)]
  /\ pend' = << >>
  /\ wire' = [NoWire EXCEPT !.on = TRUE, !.by = t, !.spi = wire.spi, !.done = TRUE]
  /\ disp' = NoDisp
  /\ pc' = [pc EXCEPT ![t] = "unlock"]
  /\ UNCHANGED << lock, registry, op, last_enq, hist, tracing, race, can >>

\* mutex_unlock(&spidev->lock); return ret
MutexUnlock(t) ==
  /\ pc[t] = "unlock"
  /\ lock' = NULL
  /\ pc' = [pc EXCEPT ![t] = "idle"]
  /\ op' = [op EXCEPT ![t] = NULL]
  /\ ret' = [ret EXCEPT ![t] = 0]
  /\ last_enq' = NoEnq
  /\ wire' = NoWire
  /\ UNCHANGED << bufs, registry, pend, disp, hist, tracing, race, can >>

\* a call x8h7_hook_set(idx, hp[1], hp[2]) by a driver
HookSetCall(idx, hp) ==
  LET r == x8h7_hook_set(x8h7_hook, x8h7_hook_priv, idx, hp[1], hp[2])
  IN  /\ x8h7_hook' = r.hook
      /\ x8h7_hook_priv' = r.priv
      /\ UNCHANGED << bufs, lock, x8h7_dbg, x8h7_dbg_priv, pc, op, ret, pend,
                      last_enq, wire, disp, hist, tracing, race, can >>

\* x8h7_hook_set(idx, hook, priv)
HookSet == \E idx \in HookIdx, hp \in HookPairs : HookSetCall(idx, hp)

\* x8h7_dbg_set(hook, priv)
DbgSet ==
  /\ \E hp \in DbgPairs :
       /\ x8h7_dbg' = hp[1]
       /\ x8h7_dbg_priv' = hp[2]
  /\ UNCHANGED << bufs, lock, x8h7_hook, x8h7_hook_priv, pc, op, ret, pend,
                  last_enq, wire, disp, hist, tracing, race, can >>

Next ==
  \/ \E t \in Threads : Call(t)
  \/ \E t \in Threads : \E o \in EntryPoints(t) : MutexLock(t, o)
  \/ \E t \in Threads : PktEnq(t)
  \/ \E t \in Threads : PktSendTrx(t)
  \/ \E t \in Threads : PktSendDispatch(t)
  \/ \E t \in Threads : PktSendReset(t)
  \/ \E t \in Threads : MutexUnlock(t)
  \/ HookSet
  \/ DbgSet

Spec == Init /\ [][Next]_vars

(***************************************************************************)
(* Scenario: two producers call x8h7_pkt_send_sync at the same time on an  *)
(* empty transmit buffer, each once; nothing else runs.  The log hist is   *)
(* kept.                                                                   *)
(***************************************************************************)
InitSync2 ==
  /\ InitCommon
  /\ \E hp \in HookPairs :
       /\ x8h7_hook = [NoHooks EXCEPT ![3] = hp[1]]
       /\ x8h7_hook_priv = [NoHooks EXCEPT ![3] = hp[2]]
  /\ x8h7_dbg = NULL
  /\ x8h7_dbg_priv = NULL
  /\ pc = [t \in AllThreads |-> IF t \in Producers THEN "lock" ELSE "idle"]
  /\ op = [t \in AllThreads |-> NULL]
  /\ can = NoCan
  /\ tracing = TRUE

NextSync2 ==
  \/ \E t \in Producers : MutexLock(t, "sync")
  \/ \E t \in Producers : PktEnq(t)
  \/ \E t \in Producers : PktSendTrx(t)
  \/ \E t \in Producers : PktSendDispatch(t)
  \/ \E t \in Producers : PktSendReset(t)
  \/ \E t \in Producers : MutexUnlock(t)

SpecSync2 == InitSync2 /\ [][NextSync2]_vars

(***************************************************************************)
(* Scenario: the receive side.  The interrupt thread and the producers,    *)
(* which call x8h7_pkt_send_now only, exchange empty frames against every  *)
(* frame of RxFramesWide, while drivers register and clear handlers for    *)
(* valid and invalid ids and the tap is set and cleared.                   *)
(***************************************************************************)
NextRx ==
  \/ \E t \in Threads : Call(t)
  \/ \E t \in Threads : MutexLock(t, IF t = Isr THEN "isr" ELSE "now")
  \/ \E t \in Threads : SpiTrx(t, RxFramesWide)
  \/ \E t \in Threads : PktSendDispatch(t)
  \/ \E t \in Threads : PktSendReset(t)
  \/ \E t \in Threads : MutexUnlock(t)
  \/ \E idx \in HookIdxWide, hp \in HookPairsWide : HookSetCall(idx, hp)
  \/ DbgSet

SpecRx == Init /\ [][NextRx]_vars

(***************************************************************************)
(* Scenario: scheduling.  The three threads call the entry points again    *)
(* and again; the handler of peripheral 3 and the tap are fixed at the     *)
(* start, and may be ones that call x8h7_pkt_send_now.  The scheduler is   *)
(* fair: a thread that can take a step inside an entry point takes it, and *)
(* a thread blocked in mutex_lock gets the mutex if it is free again and   *)
(* again (the mutex hands over to its waiters).  Nothing makes a thread    *)
(* call an entry point.                                                    *)
(***************************************************************************)
InitLive ==
  /\ InitCommon
  /\ \E hp \in HookPairs \cup { << "reent_hook", "reent_priv" >> } :
       /\ x8h7_hook = [NoHooks EXCEPT ![3] = hp[1]]
       /\ x8h7_hook_priv = [NoHooks EXCEPT ![3] = hp[2]]
  /\ \E dp \in { << NULL, NULL >>, << "reent_dbg", "dbg_priv" >> } :
       /\ x8h7_dbg = dp[1]
       /\ x8h7_dbg_priv = dp[2]
  /\ pc = [t \in AllThreads |-> "idle"]
  /\ op = [t \in AllThreads |-> NULL]
  /\ tracing = FALSE
  /\ can = NoCan

NextLive ==
  \/ \E t \in Threads : Call(t)
  \/ \E t \in Threads : \E o \in EntryPoints(t) : MutexLock(t, o)
  \/ \E t \in Threads : PktEnq(t)
  \/ \E t \in Threads : PktSendTrx(t)
  \/ \E t \in Threads : PktSendDispatch(t)
  \/ \E t \in Threads : PktSendReset(t)
  \/ \E t \in Threads : MutexUnlock(t)

FairLive ==
  \A t \in Threads :
    /\ SF_vars(\E o \in EntryPoints(t) : MutexLock(t, o))
    /\ WF_vars(PktEnq(t))
    /\ WF_vars(PktSendTrx(t))
    /\ WF_vars(PktSendDispatch(t))
    /\ WF_vars(PktSendReset(t))
    /\ WF_vars(MutexUnlock(t))

SpecLive == InitLive /\ [][NextLive]_vars /\ FairLive

(***************************************************************************)
(* Scenario: registration during a dispatch.  x8h7_hook_set and            *)
(* x8h7_dbg_set take no lock and store the handler and then the context;   *)
(* the dispatch tests x8h7_dbg or x8h7_hook[i], and then loads the handler *)
(* and the context for the call.  The tables are plain globals, so the     *)
(* call may go through the value the test saw or through a fresh load,     *)
(* and the two loads of the call come in either order.  The interrupt      *)
(* thread makes the exchanges.                                             *)
(***************************************************************************)
\* the ids and the pairs the drivers register in this scenario
RaceIdx == {1, 3}

\* x8h7_pkt_send: if (hdr->size) { if (x8h7_dbg) ... else pkt_parse(spidev)
RaceEnter(t) ==
  /\ pc[t] = "parse"
  /\ disp' = [NoDisp EXCEPT !.on = TRUE]
  /\ IF ~HasPayload(x8h7_rxb)
     THEN /\ pc' = [pc EXCEPT ![t] = "reset"]
          /\ race' = race
     ELSE IF TapInstalled(x8h7_dbg)
     THEN /\ pc' = [pc EXCEPT ![t] = "tapcall"]
          /\ race' = [race EXCEPT !.tested = x8h7_dbg]
     ELSE /\ pc' = [pc EXCEPT ![t] = "walk"]
          /\ race' = [race EXCEPT !.ptr = HdrLen, !.size = Rd16(x8h7_rxb, 0)]
  /\ UNCHANGED << bufs, lock, registry, op, ret, pend, last_enq, wire, hist, tracing, can >>

\* the end of one iteration of the do-while loop of pkt_parse: ptr and size
\* move on, and the loop goes on while size > 0
RaceAdvance(t, r) ==
  LET psz   == Rd16(x8h7_rxb, r.ptr + 2)
      nsize == Remaining(r.size, psz)
  IN  IF nsize > 0 /\ r.ptr + SubLen + psz + SubLen <= X8H7_BUF_SIZE
      THEN /\ race' = [Locals(r) EXCEPT !.ptr = r.ptr + SubLen + psz, !.size = nsize]
           /\ pc' = [pc EXCEPT ![t] = "walk"]
      ELSE /\ race' = Locals(r)
           /\ pc' = [pc EXCEPT ![t] = "reset"]

\* pkt_parse, one iteration up to the test if (x8h7_hook[i])
RaceWalk(t) ==
  /\ pc[t] = "walk"
  /\ LET per == x8h7_rxb[race.ptr]
         psz == Rd16(x8h7_rxb, race.ptr + 2)
     IN  IF IsTerminator(per, psz)
         THEN /\ race' = Locals(race)
              /\ pc' = [pc EXCEPT ![t] = "reset"]
         ELSE IF Registered(x8h7_hook, per)
         THEN /\ race' = [race EXCEPT !.tested = x8h7_hook[per]]
              /\ pc' = [pc EXCEPT ![t] = "hookcall"]
         ELSE RaceAdvance(t, race)
  /\ disp' = [disp EXCEPT !.iters = disp.iters + 1]
  /\ UNCHANGED << bufs, lock, registry, op, ret, pend, last_enq, wire, hist, tracing, can >>

\* the handler of the call x8h7_hook[i](...) or x8h7_dbg(...): the value the
\* test saw, or the table read again
RaceLoadFn(t) ==
  /\ pc[t] \in {"hookcall", "tapcall"}
  /\ ~race.fn_ld
  /\ \E f \in { race.tested,
                 IF pc[t] = "tapcall" THEN x8h7_dbg
                 ELSE x8h7_hook[x8h7_rxb[race.ptr]] } :
       race' = [race EXCEPT !.fn = f, !.fn_ld = TRUE]
  /\ UNCHANGED << bufs, lock, registry, pc, op, ret, pend, last_enq, wire, disp,
                  hist, tracing, can >>

\* the context of the call: x8h7_hook_priv[i] or x8h7_dbg_priv
RaceLoadPriv(t) ==
  /\ pc[t] \in {"hookcall", "tapcall"}
  /\ ~race.priv_ld
  /\ race' = [race EXCEPT !.priv_ld = TRUE,
                          !.priv = IF pc[t] = "tapcall" THEN x8h7_dbg_priv
                                   ELSE x8h7_hook_priv[x8h7_rxb[race.ptr]]]
  /\ UNCHANGED << bufs, lock, registry, pc, op, ret, pend, last_enq, wire, disp,
                  hist, tracing, can >>

\* the call itself; a call through a null pointer ends the thread
RaceInvoke(t) ==
  /\ pc[t] \in {"hookcall", "tapcall"}
  /\ race.fn_ld
  /\ race.priv_ld
  /\ IF pc[t] = "tapcall"
     THEN /\ disp' = [disp EXCEPT !.taps = << [fn |-> race.fn, priv |-> race.priv,
                                               buf |-> x8h7_rxb,
                                               len |-> Rd16(x8h7_rxb, 0)] >>]
          /\ race' = Locals(race)
          /\ pc' = [pc EXCEPT ![t] = IF race.fn = NULL THEN "oops" ELSE "reset"]
     ELSE /\ disp' = [disp EXCEPT !.calls =
                        Deliver(disp.calls,
                                CallAt(x8h7_rxb, race.ptr, race.fn, race.priv))]
          /\ IF race.fn = NULL
             THEN /\ race' = Locals(race)
                  /\ pc' = [pc EXCEPT ![t] = "oops"]
             ELSE RaceAdvance(t, race)
  /\ UNCHANGED << bufs, lock, registry, op, ret, pend, last_enq, wire, hist, tracing, can >>

\* x8h7_hook_set(idx, hp[1], hp[2]), first store: x8h7_hook[idx] = hook
RaceHookSetHook(idx, hp) ==
  /\ ~race.hs.on
  /\ LET r == x8h7_hook_set(x8h7_hook, x8h7_hook_priv, idx, hp[1], hp[2])
     IN  /\ r.ret = 0
         /\ x8h7_hook' = r.hook
  /\ race' = [race EXCEPT !.hs = [on |-> TRUE, idx |-> idx, hook |-> hp[1],
                                  priv |-> hp[2]]]
  /\ UNCHANGED << bufs, lock, x8h7_hook_priv, x8h7_dbg, x8h7_dbg_priv, pc, op, ret,
                  pend, last_enq, wire, disp, hist, tracing, can >>

\* x8h7_hook_set, second store: x8h7_hook_priv[idx] = priv
RaceHookSetPriv ==
  /\ race.hs.on
  /\ x8h7_hook_priv' = x8h7_hook_set(x8h7_hook, x8h7_hook_priv, race.hs.idx,
                                     race.hs.hook, race.hs.priv).priv
  /\ race' = [race EXCEPT !.hs = NoRace.hs]
  /\ UNCHANGED << bufs, lock, x8h7_hook, x8h7_dbg, x8h7_dbg_priv, pc, op, ret,
                  pend, last_enq, wire, disp, hist, tracing, can >>

\* x8h7_dbg_set(hp[1], hp[2]), first store: x8h7_dbg = hook
RaceDbgSetHook(hp) ==
  /\ ~race.ds.on
  /\ x8h7_dbg' = hp[1]
  /\ race' = [race EXCEPT !.ds = [on |-> TRUE, priv |-> hp[2]]]
  /\ UNCHANGED << bufs, lock, x8h7_hook, x8h7_hook_priv, x8h7_dbg_priv, pc, op, ret,
                  pend, last_enq, wire, disp, hist, tracing, can >>

\* x8h7_dbg_set, second store: x8h7_dbg_priv = priv
RaceDbgSetPriv ==
  /\ race.ds.on
  /\ x8h7_dbg_priv' = race.ds.priv
  /\ race' = [race EXCEPT !.ds = NoRace.ds]
  /\ UNCHANGED << bufs, lock, x8h7_hook, x8h7_hook_priv, x8h7_dbg, pc, op, ret,
                  pend, last_enq, wire, disp, hist, tracing, can >>

NextRace ==
  \/ Call(Isr)
  \/ \E o \in EntryPoints(Isr) : MutexLock(Isr, o)
  \/ PktSendTrx(Isr)
  \/ RaceEnter(Isr)
  \/ RaceWalk(Isr)
  \/ RaceLoadFn(Isr)
  \/ RaceLoadPriv(Isr)
  \/ RaceInvoke(Isr)
  \/ PktSendReset(Isr)
  \/ MutexUnlock(Isr)
  \/ \E idx \in RaceIdx, hp \in HookPairsWide : RaceHookSetHook(idx, hp)
  \/ RaceHookSetPriv
  \/ \E hp \in DbgPairs : RaceDbgSetHook(hp)
  \/ RaceDbgSetPriv

SpecRace == Init /\ [][NextRace]_vars

(***************************************************************************)
(* Scenario: CAN traffic.  The interface is up: x8h7_can_hook is           *)
(* registered for X8H7_CAN1_PERIPH and the net queue runs.  The network    *)
(* stack hands frames to x8h7_can_start_xmit while the queue runs, the     *)
(* worker runs x8h7_can_tx_work_handler, the CAN core may call             *)
(* x8h7_can_restart, another driver defers sub-packets of its own, and the *)
(* interrupt thread makes the exchanges the peer asks for.  The peer       *)
(* returns empty frames, received CAN frames, and TX_COMPLETE for a frame  *)
(* it got in an earlier exchange.                                          *)
(***************************************************************************)
\* the number of frames the network stack hands over
MaxXmit == 2

\* the frames the network stack hands over: valid ones (can_dropped_invalid_skb
\* returns the others), a standard and an extended identifier
CanFrames ==
  { CanFrame(FALSE, 291, 2, << 222, 173, 0, 0, 0, 0, 0, 0 >>),
    CanFrame(TRUE, 305419896, 8, << 1, 2, 3, 4, 5, 6, 7, 8 >>) }

\* RECV sub-packets the peer sends: shorter than the header; 2 data bytes
\* and length 2; 2 data bytes and length 8; 8 data bytes and length 200
CanRxCases ==
  { RxCase(7, << Sub(X8H7_CAN1_PERIPH, X8H7_CAN_OC_RECV, 3,
                     Bytes(<< 35, 1, 0 >>)) >>),
    RxCase(11, << Sub(X8H7_CAN1_PERIPH, X8H7_CAN_OC_RECV, 7,
                      Bytes(<< 35, 1, 0, 0, 2, 222, 173 >>)) >>),
    RxCase(11, << Sub(X8H7_CAN1_PERIPH, X8H7_CAN_OC_RECV, 7,
                      Bytes(<< 35, 1, 0, 0, 8, 222, 173 >>)) >>),
    RxCase(17, << Sub(X8H7_CAN1_PERIPH, X8H7_CAN_OC_RECV, 13,
                      Bytes(<< 35, 1, 0, 0, 200, 1, 2, 3, 4, 5, 6, 7, 8 >>)) >>) }

CanRxFrames == { FrameOf(c) : c \in CanRxCases }

\* the frames the peer may return to the CAN driver c
PeerFrames(c) ==
  {ZeroBuf} \cup CanRxFrames \cup (IF c.h7 > 0 THEN {TxCompleteFrame} ELSE {})

\* the driver that defers sub-packets of its own
Other == "p2"

CanThreads == {CanWq, Isr, Other}

InitCan ==
  /\ InitCommon
  /\ x8h7_hook = [NoHooks EXCEPT ![X8H7_CAN1_PERIPH] = "x8h7_can_hook"]
  /\ x8h7_hook_priv = [NoHooks EXCEPT ![X8H7_CAN1_PERIPH] = "can_priv"]
  /\ x8h7_dbg = NULL
  /\ x8h7_dbg_priv = NULL
  /\ pc = [t \in AllThreads |-> "idle"]
  /\ op = [t \in AllThreads |-> NULL]
  /\ tracing = FALSE
  /\ can = [NoCan EXCEPT !.queue = "running", !.phase = "up"]

\* x8h7_can_start_xmit(skb, net), called while the net queue runs
CanStartXmit(f) ==
  /\ can.queue = "running"
  /\ can.n < MaxXmit
  /\ LET msg == x8h7_can_frame_to_tx_obj(f, can.tx_frame)
     IN  can' = [can EXCEPT !.queue = "stopped",
                            !.tx_frame = msg,
                            !.work = TRUE,
                            !.acc = Append(can.acc, msg),
                            !.n = can.n + 1,
                            !.handed = FALSE]
  /\ UNCHANGED << bufs, lock, registry, pc, op, ret, pend, last_enq, wire, disp,
                  hist, tracing, race >>

\* x8h7_can_tx_work_handler, up to the mutex_lock of x8h7_pkt_send_sync
CanWorkRun ==
  /\ can.work
  /\ pc[CanWq] = "idle"
  /\ can' = [can EXCEPT !.work = FALSE,
                        !.tx_len = can.tx_frame.len,
                        !.wsize = X8H7_CAN_HEADER_SIZE + can.tx_frame.len]
  /\ pc' = [pc EXCEPT ![CanWq] = "lock"]
  /\ UNCHANGED << bufs, lock, registry, op, ret, pend, last_enq, wire, disp,
                  hist, tracing, race >>

\* the x8h7_pkt_enq of the work handler's x8h7_pkt_send_sync
CanWorkEnq ==
  Enqueue(CanWq, Arg(X8H7_CAN1_PERIPH, X8H7_CAN_OC_SEND, can.wsize,
                     Bytes(TxBuf(can.tx_frame))))

\* x8h7_can_restart(net): the state becomes error-active and the net queue
\* is woken; with the queue running already the call changes nothing
CanRestart ==
  /\ can.phase = "up"
  /\ can.queue = "stopped"
  /\ can' = [can EXCEPT !.queue = "running"]
  /\ UNCHANGED << bufs, lock, registry, pc, op, ret, pend, last_enq, wire, disp,
                  hist, tracing, race >>

NextCan ==
  \/ \E f \in CanFrames : CanStartXmit(f)
  \/ CanWorkRun
  \/ MutexLock(CanWq, "sync")
  \/ CanWorkEnq
  \/ CanRestart
  \/ Call(Isr)
  \/ MutexLock(Isr, "isr")
  \/ Call(Other)
  \/ \E o \in EntryPoints(Other) \cap {"defer"} : MutexLock(Other, o)
  \/ PktEnq(Other)
  \/ \E t \in CanThreads : SpiTrx(t, PeerFrames(can))
  \/ \E t \in CanThreads : PktSendDispatch(t)
  \/ \E t \in CanThreads : PktSendReset(t)
  \/ \E t \in CanThreads : MutexUnlock(t)

SpecCan == InitCan /\ [][NextCan]_vars

(***************************************************************************)
(* Scenario: the CAN interface is opened and stopped.  The network stack   *)
(* calls x8h7_can_open and x8h7_can_stop in turn; another driver defers    *)
(* sub-packets of its own, and the interrupt thread makes the exchanges    *)
(* the peer asks for, in which the peer may send a received CAN frame.     *)
(***************************************************************************)
\* the frames the peer may return while the interface is opened and stopped
OpenFrames ==
  { ZeroBuf,
    FrameOf(RxCase(11, << Sub(X8H7_CAN1_PERIPH, X8H7_CAN_OC_RECV, 7,
                              Bytes(<< 35, 1, 0, 0, 2, 222, 173 >>)) >>)) }

OpenThreads == {CanNdo, Isr, Other}

\* x8h7_can_open up to the mutex_lock of the x8h7_pkt_send_sync of
\* x8h7_can_hw_stop
CanOpen ==
  /\ can.phase \in {"down", "stopped"}
  /\ pc[CanNdo] = "idle"
  /\ can' = [can EXCEPT !.phase = "open_stop", !.tx_len = 0,
                        !.deinit = FALSE, !.init = FALSE]
  /\ pc' = [pc EXCEPT ![CanNdo] = "lock"]
  /\ UNCHANGED << bufs, lock, registry, op, ret, pend, last_enq, wire, disp,
                  hist, tracing, race >>

\* x8h7_can_hw_stop has returned 0 to x8h7_can_open: x8h7_can_hw_setup up to
\* the mutex_lock of its x8h7_pkt_send_sync
CanOpenSetup ==
  /\ can.phase = "open_stop"
  /\ pc[CanNdo] = "idle"
  /\ can' = [can EXCEPT !.phase = "open_setup"]
  /\ pc' = [pc EXCEPT ![CanNdo] = "lock"]
  /\ UNCHANGED << bufs, lock, registry, op, ret, pend, last_enq, wire, disp,
                  hist, tracing, race >>

\* x8h7_can_hw_setup has returned 0: x8h7_can_set_normal_mode registers the
\* handler
CanOpenRegister ==
  /\ can.phase = "open_setup"
  /\ pc[CanNdo] = "idle"
  /\ LET r == x8h7_hook_set(x8h7_hook, x8h7_hook_priv, X8H7_CAN1_PERIPH,
                            "x8h7_can_hook", "can_priv")
     IN  /\ x8h7_hook' = r.hook
         /\ x8h7_hook_priv' = r.priv
  /\ can' = [can EXCEPT !.phase = "open_reg"]
  /\ UNCHANGED << bufs, lock, x8h7_dbg, x8h7_dbg_priv, pc, op, ret, pend,
                  last_enq, wire, disp, hist, tracing, race >>

\* netif_start_queue(net); return 0
CanOpenStartQueue ==
  /\ can.phase = "open_reg"
  /\ can' = [can EXCEPT !.phase = "up", !.queue = "running"]
  /\ UNCHANGED << bufs, lock, registry, pc, op, ret, pend, last_enq, wire, disp,
                  hist, tracing, race >>

\* x8h7_can_stop up to the mutex_lock of the x8h7_pkt_send_sync of
\* x8h7_can_hw_stop
CanStop ==
  /\ can.phase = "up"
  /\ pc[CanNdo] = "idle"
  /\ can' = [can EXCEPT !.phase = "stop", !.queue = "stopped", !.deinit = FALSE,
                        !.init = FALSE]
  /\ pc' = [pc EXCEPT ![CanNdo] = "lock"]
  /\ UNCHANGED << bufs, lock, registry, op, ret, pend, last_enq, wire, disp,
                  hist, tracing, race >>

\* x8h7_can_hw_stop has returned to x8h7_can_stop: the handler is cleared
CanStopFinish ==
  /\ can.phase = "stop"
  /\ pc[CanNdo] = "idle"
  /\ LET r == x8h7_hook_set(x8h7_hook, x8h7_hook_priv, X8H7_CAN1_PERIPH, NULL, NULL)
     IN  /\ x8h7_hook' = r.hook
         /\ x8h7_hook_priv' = r.priv
  /\ can' = [can EXCEPT !.phase = "stopped"]
  /\ UNCHANGED << bufs, lock, x8h7_dbg, x8h7_dbg_priv, pc, op, ret, pend,
                  last_enq, wire, disp, hist, tracing, race >>

\* the x8h7_pkt_enq of the x8h7_pkt_send_sync of x8h7_can_hw_setup (INIT with
\* the bit timing) or of x8h7_can_hw_stop (DEINIT, no payload)
CanNdoEnq ==
  Enqueue(CanNdo,
          IF can.phase = "open_setup"
          THEN Arg(X8H7_CAN1_PERIPH, X8H7_CAN_OC_INIT, X8H7_CAN_INIT_SIZE, Buf(1))
          ELSE Arg(X8H7_CAN1_PERIPH, X8H7_CAN_OC_DEINIT, 0, NullData))

NextCanOpen ==
  \/ CanOpen
  \/ CanOpenSetup
  \/ CanOpenRegister
  \/ CanOpenStartQueue
  \/ CanStop
  \/ CanStopFinish
  \/ MutexLock(CanNdo, "sync")
  \/ CanNdoEnq
  \/ Call(Isr)
  \/ MutexLock(Isr, "isr")
  \/ Call(Other)
  \/ \E o \in EntryPoints(Other) \cap {"defer"} : MutexLock(Other, o)
  \/ PktEnq(Other)
  \/ \E t \in OpenThreads : SpiTrx(t, OpenFrames)
  \/ \E t \in OpenThreads : PktSendDispatch(t)
  \/ \E t \in OpenThreads : PktSendReset(t)
  \/ \E t \in OpenThreads : MutexUnlock(t)

SpecCanOpen == Init /\ [][NextCanOpen]_vars

(***************************************************************************)
(* Definitions the properties share.                                       *)
(***************************************************************************)
\* bytes a sequence of enqueued sub-packets occupies: the sum of 4 + size
RECURSIVE PendSize(_)
PendSize(p) ==
  IF p = << >> THEN 0
  ELSE SubLen + p[Len(p)].a.size + PendSize(SubSeq(p, 1, Len(p) - 1))

\* offset in the frame of the k-th enqueued sub-packet
PendOff(p, k) == HdrLen + PendSize(SubSeq(p, 1, k - 1))

\* the sub-packet a lies whole in the frame at offset off
SubAt(frame, off, a) ==
  /\ off + SubLen + a.size <= X8H7_BUF_SIZE
  /\ frame[off] = a.peripheral
  /\ frame[off + 1] = a.opcode
  /\ Rd16(frame, off + 2) = a.size
  /\ \A i \in 0..(a.size - 1) : frame[off + SubLen + i] = DataSeq(a.data, a.size)[i + 1]

\* a registry with a handler for every peripheral id
AllHooks == [i \in 0..(X8H7_PERIPH_NUM - 1) |-> "hook"]

AllPrivs == [i \in 0..(X8H7_PERIPH_NUM - 1) |-> "priv"]

\* the (peripheral, opcode, payload) sub-packets the receive-side walk
\* delivers when every id has a handler
Decoded(frame) ==
  LET c == pkt_parse(frame, AllHooks, AllPrivs, 0).calls
  IN  [k \in 1..Len(c) |-> << c[k].peripheral, c[k].opcode, c[k].data >>]

\* the (peripheral, opcode, payload) sub-packets that were enqueued
Enqueued(p) ==
  [k \in 1..Len(p) |-> << p[k].a.peripheral, p[k].a.opcode,
                          DataSeq(p[k].a.data, p[k].a.size) >>]

InCritical(t) == pc[t] \in {"enq", "send", "parse", "reset"}

(***************************************************************************)
(* C1.  The header's total_payload_size never exceeds the frame size minus *)
(* the header (252), and every byte x8h7_pkt_enq writes lies below offset  *)
(* 256 of the transmit buffer.  The code admits header.size + 4 + size up  *)
(* to 255: this is the claim as stated, and it is violated.                *)
(***************************************************************************)
C1_FrameWithinBuffer ==
  /\ Rd16(x8h7_txb, 0) <= X8H7_BUF_SIZE - HdrLen
  /\ last_enq.on => last_enq.hi <= X8H7_BUF_SIZE

(***************************************************************************)
(* C2.  A call of x8h7_pkt_enq with header.size + 4 + size >= 256 returns  *)
(* -ENOMEM and leaves the transmit buffer (header size and checksum, every *)
(* queued byte) and the recorded transmit length as they were.             *)
(***************************************************************************)
C2_RejectLeavesBuffer ==
  [][ \A t \in Threads :
        ( /\ pc[t] = "enq"
          /\ pc'[t] # "enq"
          /\ Rd16(x8h7_txb, 0) + SubLen + last_enq'.a.size >= X8H7_BUF_SIZE )
        => ( /\ ret'[t] = -ENOMEM
             /\ last_enq'.ret = -ENOMEM
             /\ x8h7_txb' = x8h7_txb
             /\ x8h7_txl' = x8h7_txl ) ]_vars

\* an enqueue was just rejected on a buffer that already holds a sub-packet
C2_Witness ==
  /\ last_enq.on
  /\ last_enq.hsize > 0
  /\ last_enq.hsize + SubLen + last_enq.a.size >= X8H7_BUF_SIZE
  /\ last_enq.ret = -ENOMEM
  /\ Len(pend) > 0

C4_HeaderTracksEnqueues ==
  /\ Rd16(x8h7_txb, 0) = PendSize(pend)
  /\ x8h7_txl = PendSize(pend)
  /\ Len(pend) > 0 => Rd16(x8h7_txb, 2) = Xor(PendSize(pend), XorKey)

\* payload lengths 2 then 0: size 10, checksum 0x555F
C4_Witness ==
  /\ Len(pend) = 2
  /\ pend[1].a.size = 2
  /\ pend[2].a.size = 0
  /\ Rd16(x8h7_txb, 0) = 10
  /\ x8h7_txl = 10
  /\ Rd16(x8h7_txb, 2) = 21855

(***************************************************************************)
(* C5.  Mutual exclusion: at most one thread at a time is inside an        *)
(* enqueue or an exchange, and that thread holds the mutex.                *)
(***************************************************************************)
C5_MutualExclusion ==
  \A t \in Threads :
    InCritical(t) =>
      /\ lock = t
      /\ \A u \in Threads \ {t} : ~InCritical(u)

\* the interrupt thread is in the middle of an exchange while both
\* producers are blocked in mutex_lock
C5_Witness ==
  /\ pc[Isr] = "parse"
  /\ \A t \in Producers : pc[t] = "lock"

(***************************************************************************)
(* C6.  Two concurrent calls of x8h7_pkt_send_sync on an empty buffer      *)
(* (SpecSync2): every transmitted frame is, byte for byte, the frame one   *)
(* of the calls transmits when it runs alone, it holds the sub-packet of   *)
(* the thread that transmits it and nothing of the other call; when both   *)
(* calls have returned with their enqueues accepted, exactly two exchanges *)
(* have happened, one per call.                                            *)
(***************************************************************************)
\* the frame a call with arguments a transmits from an empty buffer
SoloFrame(a) == x8h7_pkt_enq(ZeroBuf, 0, a.peripheral, a.opcode, a.size, a.data).txb

Exchanges == SelectSeq(hist, LAMBDA e : e.kind = "xchg")

Rejections == SelectSeq(hist, LAMBDA e : e.kind = "enqfail")

C6_SyncCallsSerialized ==
  /\ \A i \in 1..Len(Exchanges) :
       LET e == Exchanges[i]
       IN  /\ Len(e.pend) = 1
           /\ e.pend[1].by = e.by
           /\ e.frame = SoloFrame(e.pend[1].a)
           /\ Rd16(e.frame, 0) = SubLen + e.pend[1].a.size
           /\ e.frame[HdrLen] = e.pend[1].a.peripheral
  /\ Len(Exchanges) <= 2
  /\ Len(Exchanges) = 2 => Exchanges[1].by # Exchanges[2].by
  /\ ( (\A t \in Producers : pc[t] = "idle") /\ Len(Rejections) = 0 )
     => Len(Exchanges) = 2

\* both calls have returned, each after its own exchange, with frames that
\* differ
C6_Witness ==
  /\ \A t \in Producers : pc[t] = "idle"
  /\ Len(Exchanges) = 2
  /\ Len(Rejections) = 0
  /\ Exchanges[1].frame # Exchanges[2].frame
  /\ Exchanges[1].by = "p2"

(***************************************************************************)
(* C7.  Every sub-packet whose enqueue succeeded since the last exchange   *)
(* is in the frame of the next exchange, whole, in the order of the        *)
(* enqueues, and the frame holds nothing else.  This is the claim as       *)
(* stated; it is violated by a sub-packet the capacity test admits         *)
(* although it ends past the transmit buffer (see C1).                     *)
(***************************************************************************)
C7_EnqueuedAreTransmitted ==
  (wire.on /\ ~wire.done) =>
    /\ wire.pend = pend
    /\ Rd16(wire.frame, 0) = PendSize(wire.pend)
    /\ \A k \in 1..Len(wire.pend) :
         SubAt(wire.frame, PendOff(wire.pend, k), wire.pend[k].a)

(***************************************************************************)
(* C8.  When an exchange has completed, whatever the transfer returned and *)
(* whatever was received, the whole transmit buffer and the whole receive  *)
(* buffer are zero and x8h7_txl is 0; and the frame of an exchange carries *)
(* no more than the sub-packets enqueued since the exchange before it.     *)
(***************************************************************************)
C8_BuffersResetAfterExchange ==
  /\ (wire.on /\ wire.done) =>
       /\ x8h7_txb = ZeroBuf
       /\ x8h7_rxb = ZeroBuf
       /\ x8h7_txl = 0
       /\ pend = << >>
  /\ (wire.on /\ ~wire.done) =>
       /\ Rd16(wire.frame, 0) = PendSize(wire.pend)
       /\ wire.pend = pend
  /\ (\A t \in Threads : pc[t] \in {"idle", "lock"}) /\ pend = << >>
       => x8h7_txb = ZeroBuf /\ x8h7_rxb = ZeroBuf

\* the exchange of a x8h7_pkt_send_sync call has just completed although
\* its transfer failed
C8_Witness ==
  /\ wire.on
  /\ wire.done
  /\ wire.spi = -EIO
  /\ \E t \in Threads : pc[t] = "unlock" /\ op[t] = "sync"

(***************************************************************************)
(* C9.  When the transfer of an exchange fails, x8h7_pkt_send_sync and     *)
(* x8h7_pkt_send_now return a negative value.  This is the claim as        *)
(* stated; it is violated, x8h7_pkt_send returns 0 whatever spi_sync       *)
(* returned.                                                               *)
(***************************************************************************)
C9_TransferFailureReturned ==
  \A t \in Producers :
    ( /\ pc[t] = "unlock"
      /\ op[t] \in {"sync", "now"}
      /\ wire.on /\ wire.done /\ wire.by = t
      /\ wire.spi < 0 )
    => ret[t] < 0

(***************************************************************************)
(* C10.  A received frame with size # 0 and checksum # size XOR 0x5555 is  *)
(* discarded: the dispatch of that exchange invokes no handler and no tap. *)
(* This is the claim as stated; it is violated, x8h7_pkt_send does not     *)
(* test the checksum.                                                      *)
(***************************************************************************)
BadChecksum(rxb) ==
  Rd16(rxb, 0) # 0 /\ Rd16(rxb, 2) # Xor(Rd16(rxb, 0), XorKey)

C10_BadChecksumDiscarded ==
  \A t \in Threads :
    (pc[t] = "reset" /\ disp.on /\ BadChecksum(x8h7_rxb))
    => (disp.calls = << >> /\ disp.taps = << >>)

(***************************************************************************)
(* Definitions the receive-side properties share.                          *)
(***************************************************************************)
\* the frame with a sub-packet for id 3 and then one for id 1
RxCaseTwoSubs == RxCase(11, << Sub(3, 17, 2, Buf(170)), Sub(1, 18, 1, Buf(204)) >>)

\* the received frame is the frame of the case c
IsCase(rxb, c) == RxCaseFrames[c] = rxb

\* a thread takes the dispatch step of x8h7_pkt_send
DispatchStep == \E t \in Threads : pc[t] = "parse" /\ pc'[t] = "reset"

\* what a handler invocation passes that the caller of the peer chose
Routed(calls) ==
  [k \in 1..Len(calls) |-> << calls[k].fn, calls[k].priv, calls[k].peripheral,
                              calls[k].opcode, calls[k].data >>]

\* the invocations the sub-packets subs call for under the tables hook and
\* priv: one per sub-packet whose id is in range and has a handler, in the
\* order of the sub-packets
ExpectedCalls(subs, hook, priv) ==
  LET reg == SelectSeq(subs, LAMBDA s : /\ s.a.peripheral < X8H7_PERIPH_NUM
                                        /\ hook[s.a.peripheral] # NULL)
  IN  [k \in 1..Len(reg) |->
         << hook[reg[k].a.peripheral], priv[reg[k].a.peripheral],
            reg[k].a.peripheral, reg[k].a.opcode,
            DataSeq(reg[k].a.data, reg[k].a.size) >>]

(***************************************************************************)
(* C11.  Whatever the received frame holds, pkt_parse reads sub-packet     *)
(* headers and copies payload bytes only from offsets inside the 256-byte  *)
(* receive buffer.  This is the claim as stated; it is violated, the walk  *)
(* follows the declared sizes without looking at the end of the buffer.    *)
(***************************************************************************)
C11_ParseStaysInBuffer == disp.on => ~disp.ub

(***************************************************************************)
(* C12.  Dispatch without a tap of a frame whose sub-packets have ids of 1 *)
(* and more and payloads of at least one byte, and whose declared size is  *)
(* their sum: each sub-packet with a handler registered for its id invokes *)
(* that handler once, with the context registered with it and with the     *)
(* sub-packet's opcode and payload; a sub-packet whose id has no handler,  *)
(* or is 16 or more, invokes nothing, and the sub-packets after it are     *)
(* still dispatched.                                                       *)
(***************************************************************************)
C12_RoutedToRegisteredHandler ==
  [][ \A c \in RxWellFormed :
        (DispatchStep /\ ~TapInstalled(x8h7_dbg) /\ IsCase(x8h7_rxb, c))
        => /\ Routed(disp'.calls) = ExpectedCalls(c.subs, x8h7_hook, x8h7_hook_priv)
           /\ \A k \in 1..Len(disp'.calls) :
                /\ disp'.calls[k].fn = x8h7_hook[disp'.calls[k].peripheral]
                /\ disp'.calls[k].priv = x8h7_hook_priv[disp'.calls[k].peripheral]
                /\ disp'.calls[k].fn # NULL
           /\ disp'.taps = << >> ]_vars

\* the frame holds a sub-packet for id 3 and then one for id 1; id 3 has no
\* handler, and the handler of id 1 alone was invoked, with its context
C12_Witness ==
  /\ disp.on
  /\ IsCase(x8h7_rxb, RxCaseTwoSubs)
  /\ x8h7_hook[3] = NULL
  /\ x8h7_hook[1] = "x8h7_adc_hook"
  /\ Len(disp.calls) = 1
  /\ disp.calls[1].peripheral = 1
  /\ disp.calls[1].fn = "x8h7_adc_hook"
  /\ disp.calls[1].priv = "adc_priv"
  /\ disp.calls[1].data = << 204 >>

(***************************************************************************)
(* C13.  While a tap is installed, the dispatch of a received frame with   *)
(* size # 0 invokes the tap once, with the tap's context, the receive      *)
(* buffer as received and the header size, and invokes no per-peripheral   *)
(* handler whatever is registered; with the tap cleared the dispatch       *)
(* invokes no tap and the handlers of the frame's sub-packets again.       *)
(***************************************************************************)
C13_TapReplacesDispatch ==
  [][ DispatchStep =>
        /\ (HasPayload(x8h7_rxb) /\ x8h7_dbg # NULL)
           => /\ disp'.taps = << [fn |-> x8h7_dbg, priv |-> x8h7_dbg_priv,
                                  buf |-> x8h7_rxb, len |-> Rd16(x8h7_rxb, 0)] >>
              /\ disp'.calls = << >>
        /\ x8h7_dbg = NULL
           => /\ disp'.taps = << >>
              /\ IsCase(x8h7_rxb, RxCaseTwoSubs)
                 => Routed(disp'.calls) =
                      ExpectedCalls(RxCaseTwoSubs.subs, x8h7_hook, x8h7_hook_priv) ]_vars

\* handlers are registered for both ids of the received frame, and the tap
\* alone was invoked, with the 256 received bytes and the size 11
C13_Witness ==
  /\ disp.on
  /\ IsCase(x8h7_rxb, RxCaseTwoSubs)
  /\ x8h7_hook[3] # NULL
  /\ x8h7_hook[1] # NULL
  /\ disp.calls = << >>
  /\ Len(disp.taps) = 1
  /\ disp.taps[1].fn = "dbg_hook"
  /\ disp.taps[1].priv = "dbg_priv"
  /\ disp.taps[1].buf = x8h7_rxb
  /\ disp.taps[1].len = 11

(***************************************************************************)
(* C14.  In every state, a call of x8h7_hook_set with an id outside 1..15  *)
(* fails and leaves both tables as they are, and a call with an id in      *)
(* 1..15 returns 0 and replaces the handler and the context of that id and *)
(* nothing else; so the entry of id 0 stays empty.  This is the claim as   *)
(* stated; it is violated, x8h7_hook_set accepts the id 0.                 *)
(***************************************************************************)
C14_HookSetChecksRange ==
  /\ \A idx \in HookIdxWide, hp \in HookPairsWide :
       LET r == x8h7_hook_set(x8h7_hook, x8h7_hook_priv, idx, hp[1], hp[2])
       IN  IF idx \in 1..(X8H7_PERIPH_NUM - 1)
           THEN /\ r.ret = 0
                /\ r.hook = [i \in DOMAIN x8h7_hook |->
                               IF i = idx THEN hp[1] ELSE x8h7_hook[i]]
                /\ r.priv = [i \in DOMAIN x8h7_hook_priv |->
                               IF i = idx THEN hp[2] ELSE x8h7_hook_priv[i]]
           ELSE /\ r.ret < 0
                /\ r.hook = x8h7_hook
                /\ r.priv = x8h7_hook_priv
  /\ x8h7_hook[0] = NULL
  /\ x8h7_hook_priv[0] = NULL

(***************************************************************************)
(* C15.  A thread in x8h7_pkt_send_defer never reaches the exchange; every *)
(* sub-packet enqueued with success stays in the transmit buffer, whole    *)
(* and unchanged, until an exchange; and the frame of that exchange,       *)
(* whichever thread makes it, holds every pending sub-packet, whole.       *)
(* This is the claim as stated; it is violated by a deferred sub-packet    *)
(* the capacity test admits although it ends past the buffer (see C1).     *)
(***************************************************************************)
C15_DeferredCarriedByNextExchange ==
  /\ \A t \in Threads : op[t] = "defer" => pc[t] \in {"enq", "unlock"}
  /\ \A k \in 1..Len(pend) : SubAt(x8h7_txb, PendOff(pend, k), pend[k].a)
  /\ (wire.on /\ ~wire.done) =>
       /\ wire.pend = pend
       /\ wire.frame = x8h7_txb
       /\ \A k \in 1..Len(wire.pend) :
            SubAt(wire.frame, PendOff(wire.pend, k), wire.pend[k].a)

(***************************************************************************)
(* C16.  As stated: the header of every frame handed to the transfer has   *)
(* checksum = size XOR 0x5555, the empty frame included.  Violated: the    *)
(* header of the empty frame is what memset left, size 0 and checksum 0.   *)
(***************************************************************************)
C16_EveryFrameChecksummed ==
  (wire.on /\ ~wire.done) =>
    Rd16(wire.frame, 2) = Xor(Rd16(wire.frame, 0), XorKey)

(***************************************************************************)
(* C16, amended.  The header of every frame handed to the transfer with    *)
(* at least one sub-packet queued has a size other than 0 and checksum =   *)
(* size XOR 0x5555; the frame transmitted when nothing is queued has size  *)
(* 0 and checksum 0, all of its bytes being zero.                          *)
(***************************************************************************)
C16_NonEmptyFrameChecksummed ==
  (wire.on /\ ~wire.done) =>
    IF wire.pend # << >>
    THEN /\ Rd16(wire.frame, 0) # 0
         /\ Rd16(wire.frame, 2) = Xor(Rd16(wire.frame, 0), XorKey)
    ELSE wire.frame = ZeroBuf

\* the interrupt thread transmits a frame with two sub-packets queued by
\* the two producers
C16_Witness ==
  /\ wire.on
  /\ ~wire.done
  /\ wire.by = Isr
  /\ Len(wire.pend) = 2
  /\ wire.pend[1].by # wire.pend[2].by
  /\ Rd16(wire.frame, 0) = PendSize(wire.pend)
  /\ Rd16(wire.frame, 2) = Xor(PendSize(wire.pend), XorKey)

(***************************************************************************)
(* C17.  The walk of pkt_parse over a received frame with size # 0 ends    *)
(* after no more sub-packets than the frame has room for, and the 16-bit   *)
(* remaining size never wraps around below zero.  This is the claim as     *)
(* stated; it is violated, the subtraction is done without comparing       *)
(* 4 + size of the sub-packet with the remaining size.                     *)
(***************************************************************************)
C17_WalkBoundedWithoutWrap ==
  disp.on =>
    /\ ~disp.wrap
    /\ disp.iters <= (X8H7_BUF_SIZE - HdrLen) \div SubLen

(***************************************************************************)
(* C18.  No handler is invoked for a sub-packet that lies at or after the  *)
(* declared size of the frame, or after a sub-packet with id 0 or with     *)
(* size 0, whatever the id of the latter.  This is the claim as stated; it *)
(* is violated, a sub-packet with size 0 and an id of 16 or more does not  *)
(* end the walk, nor does a declared size that is passed without being     *)
(* met.                                                                    *)
(***************************************************************************)
C18_NothingAfterTerminator ==
  disp.on =>
    \A c \in RxCases :
      IsCase(x8h7_rxb, c) =>
        \A i \in 1..Len(disp.calls) :
          /\ disp.calls[i].off < HdrLen + c.hsize
          /\ \A k \in 1..Len(c.subs) :
               (c.subs[k].a.peripheral = 0 \/ c.subs[k].a.size = 0)
               => disp.calls[i].off < PendOff(c.subs, k)

(***************************************************************************)
(* C19.  No handler is invoked with a size above 248; for a sub-packet     *)
(* that declares more, the size passed is 248, the 248 bytes passed are    *)
(* the bytes of the received frame that follow the sub-packet's header,    *)
(* and the walk goes on without leaving the receive buffer.  This is the   *)
(* claim as stated; it is violated, a sub-packet that declares more than   *)
(* 248 bytes ends past the receive buffer (see C11).                       *)
(***************************************************************************)
C19_ClampedPayloadFromWire ==
  disp.on =>
    \A i \in 1..Len(disp.calls) :
      LET c == disp.calls[i]
      IN  /\ c.size <= X8H7_PKT_SIZE
          /\ Len(c.data) = c.size
          /\ c.psz > X8H7_PKT_SIZE =>
               /\ c.size = X8H7_PKT_SIZE
               /\ c.off + SubLen + X8H7_PKT_SIZE <= X8H7_BUF_SIZE
               /\ \A k \in 1..X8H7_PKT_SIZE : c.data[k] = x8h7_rxb[c.off + SubLen + k - 1]
               /\ ~disp.ub

(***************************************************************************)
(* C20.  The handler invocations of one exchange are made in the order of  *)
(* the sub-packets' offsets in the received frame; and while the           *)
(* invocations of an exchange are being made no other thread is in an      *)
(* exchange: a transfer begins only when the dispatch of every earlier     *)
(* exchange is complete.                                                   *)
(***************************************************************************)
C20_WireOrderThenNextExchange ==
  /\ [](disp.on =>
          /\ \A i, j \in 1..Len(disp.calls) :
               i < j => disp.calls[i].off < disp.calls[j].off
          /\ \E t \in Threads :
               /\ pc[t] = "reset"
               /\ lock = t
               /\ \A u \in Threads \ {t} : pc[u] \in {"idle", "lock"})
  /\ [][ (\E t \in Threads : pc[t] = "send" /\ pc'[t] = "parse") => ~disp.on ]_vars

\* the interrupt thread has invoked the handlers of id 3, of id 20 (none)
\* and of id 3 again, in that order, while both producers wait for the mutex
C20_Witness ==
  /\ disp.on
  /\ pc[Isr] = "reset"
  /\ \A t \in Producers : pc[t] = "lock"
  /\ Len(disp.calls) = 2
  /\ disp.calls[1].off = 4
  /\ disp.calls[1].opcode = 17
  /\ disp.calls[2].off = 17
  /\ disp.calls[2].opcode = 19

(***************************************************************************)
(* C21.  As stated: the sub-packets pending in the transmit buffer are all *)
(* of one producer.  Violated: x8h7_pkt_send_defer appends to whatever is  *)
(* queued, whoever queued it.                                              *)
(***************************************************************************)
C21_OneProducerPending ==
  \A i, j \in 1..Len(pend) : pend[i].by = pend[j].by

(***************************************************************************)
(* C21, amended.  The sub-packets pending in the transmit buffer may be of *)
(* several producers; they lie in the buffer one after the other in the    *)
(* order of the enqueues, the header size being their sum, each with its   *)
(* own id, opcode and size and with the payload bytes that lie inside the  *)
(* buffer, and only the thread that holds the mutex is in an enqueue.      *)
(***************************************************************************)
C21_PendingInEnqueueOrder ==
  /\ Rd16(x8h7_txb, 0) = PendSize(pend)
  /\ \A k \in 1..Len(pend) :
       LET off == PendOff(pend, k)
           a   == pend[k].a
       IN  /\ off + SubLen <= X8H7_BUF_SIZE
           /\ x8h7_txb[off] = a.peripheral
           /\ x8h7_txb[off + 1] = a.opcode
           /\ Rd16(x8h7_txb, off + 2) = a.size
           /\ \A i \in 0..(a.size - 1) :
                off + SubLen + i < X8H7_BUF_SIZE
                => x8h7_txb[off + SubLen + i] = DataSeq(a.data, a.size)[i + 1]
  /\ \A t \in Threads : pc[t] = "enq" => lock = t

\* two producers have each called x8h7_pkt_send_defer and returned; the
\* sub-packets of both are pending
C21_Witness ==
  /\ Len(pend) = 2
  /\ pend[1].by # pend[2].by
  /\ \A t \in Threads : pc[t] = "idle"
  /\ lock = NULL

(***************************************************************************)
(* C22.  The dispatch of a received frame whose header size is 0 invokes   *)
(* no handler and no tap, whatever the bytes behind the header and         *)
(* whatever is registered.                                                 *)
(***************************************************************************)
C22_EmptyFrameInvokesNothing ==
  (disp.on /\ Rd16(x8h7_rxb, 0) = 0) =>
    /\ disp.calls = << >>
    /\ disp.taps = << >>

\* a frame with size 0 and two sub-packets behind the header was received
\* with the tap set and handlers registered for both ids, and the dispatch
\* is over
C22_Witness ==
  /\ disp.on
  /\ x8h7_rxb = MkFrame(HdrBytes(0, 0) \o RxTwoSubs)
  /\ x8h7_hook[3] # NULL
  /\ x8h7_hook[1] # NULL
  /\ x8h7_dbg # NULL
  /\ disp.calls = << >>
  /\ disp.taps = << >>

(***************************************************************************)
(* C23.  Under the fair scheduler (SpecLive): a thread that has returned   *)
(* from an entry point, or waits in its mutex_lock, does not hold the      *)
(* mutex; every thread that waits in mutex_lock eventually returns from    *)
(* its entry point, unless some handler or tap has called a send entry     *)
(* point from inside a dispatch; and a thread whose handler did so waits   *)
(* in that nested mutex_lock for ever, holding the mutex.                  *)
(***************************************************************************)
C23_GateReleasedAndAcquired ==
  /\ [](\A t \in Threads : pc[t] \in {"idle", "lock"} => lock # t)
  /\ \A t \in Threads :
       (pc[t] = "lock") ~> (pc[t] = "idle" \/ \E u \in Threads : pc[u] = "hlock")
  /\ [][ \A t \in Threads :
           pc[t] = "hlock" => (pc'[t] = "hlock" /\ lock' = t /\ lock = t) ]_vars

\* x8h7_pkt_send_sync of one producer is about to release the mutex after
\* its enqueue was rejected, with the other two threads waiting for it
C23_Witness ==
  /\ pc["p2"] = "unlock"
  /\ op["p2"] = "sync"
  /\ ret["p2"] = -ENOMEM
  /\ lock = "p2"
  /\ pc["p1"] = "lock"
  /\ pc[Isr] = "lock"

(***************************************************************************)
(* C24.  While x8h7_hook_set and x8h7_dbg_set run concurrently with the    *)
(* dispatch of an exchange (SpecRace), the dispatch never calls a null     *)
(* handler or tap, and never calls a handler or tap with a context other   *)
(* than the one registered together with it.                               *)
(***************************************************************************)
C24_ConsistentRegistration ==
  /\ \A k \in 1..Len(disp.calls) :
       /\ disp.calls[k].fn # NULL
       /\ << disp.calls[k].fn, disp.calls[k].priv >> \in HookPairsWide
  /\ \A k \in 1..Len(disp.taps) :
       /\ disp.taps[k].fn # NULL
       /\ << disp.taps[k].fn, disp.taps[k].priv >> \in DbgPairs

(***************************************************************************)
(* C25.  For every RECV sub-packet delivered to x8h7_can_hook (SpecCan):   *)
(* one shorter than the CAN header is dropped, and for the others the      *)
(* number of bytes copied into the CAN frame is at most 8 and at most the  *)
(* sub-packet's size minus the header size.                                *)
(***************************************************************************)
C25_ReceiveCopyBounded ==
  can.rx.on =>
    /\ can.rx.size >= X8H7_CAN_HEADER_SIZE
    /\ can.rx.dlc <= X8H7_CAN_FRAME_MAX_DATA_LEN
    /\ can.rx.dlc <= can.rx.size - X8H7_CAN_HEADER_SIZE

(***************************************************************************)
(* C26.  From x8h7_can_start_xmit storing a frame until the TX_COMPLETE    *)
(* for it is dispatched (SpecCan): no second frame is accepted, the net    *)
(* queue stays stopped, priv->tx_frame is the accepted frame, the SEND     *)
(* sub-packet the work handler enqueues is that frame, and tx_bytes is the *)
(* sum of the lengths of the frames reported complete.                     *)
(***************************************************************************)
C26_SingleOutstandingTransmit ==
  /\ Len(can.acc) <= 1
  /\ can.acc # << >> =>
       /\ can.queue = "stopped"
       /\ can.tx_frame = can.acc[1]
       /\ \A k \in CanPending(pend, X8H7_CAN_OC_SEND) :
            pend[k].a = Arg(X8H7_CAN1_PERIPH, X8H7_CAN_OC_SEND,
                            X8H7_CAN_HEADER_SIZE + can.acc[1].len,
                            Bytes(TxBuf(can.acc[1])))
  /\ can.tx_bytes = can.due

(***************************************************************************)
(* C27.  Once the work handler has run for an accepted frame (SpecCan),    *)
(* either an exchange has carried the frame or the net queue runs again:   *)
(* no frame is left with the queue stopped and nothing under way that      *)
(* would wake it.                                                          *)
(***************************************************************************)
C27_AcceptedFrameHandedOrQueueWoken ==
  (can.acc # << >> /\ ~can.work /\ pc[CanWq] = "idle") =>
    (can.handed \/ can.queue = "running")

(***************************************************************************)
(* C28.  Opening and stopping the CAN interface (SpecCanOpen): when        *)
(* x8h7_can_open sends INIT an exchange has carried its DEINIT; when it    *)
(* registers the handler exchanges have carried DEINIT and INIT; the net   *)
(* queue runs only with the handler registered; when x8h7_can_stop has     *)
(* returned an exchange has carried its DEINIT and no handler is           *)
(* registered; and a dispatch made after that invokes nothing for the      *)
(* peripheral.                                                             *)
(***************************************************************************)
C28_AttachDetachOrdering ==
  /\ [](can.phase = "open_setup" => can.deinit)
  /\ [](can.phase \in {"open_reg", "up"} =>
          /\ can.deinit
          /\ can.init
          /\ x8h7_hook[X8H7_CAN1_PERIPH] = "x8h7_can_hook")
  /\ [](can.queue = "running" => x8h7_hook[X8H7_CAN1_PERIPH] = "x8h7_can_hook")
  /\ [](can.phase = "stopped" => can.deinit /\ x8h7_hook[X8H7_CAN1_PERIPH] = NULL)
  /\ [][ (can.phase = "stopped" /\ DispatchStep) =>
           \A k \in 1..Len(disp'.calls) :
             disp'.calls[k].peripheral # X8H7_CAN1_PERIPH ]_vars

=============================================================================
